---- MODULE Spec2Model ----
(***************************************************************************)
(* Model of the MySQL check (mysql/datadog_checks/mysql/mysql.py):         *)
(*   - the sampling pass MySql.check with the per-identity query-cache     *)
(*     counters (qcache_stats) and the synthetic query-cache metrics,      *)
(*   - the server-identity key MySql._get_host_key,                        *)
(*   - the replication-health classifier of MySql._collect_metrics.        *)
(* Python's None is the empty tuple <<>>, a present value v is <<v>>.      *)
(* A Python dict is a function whose DOMAIN is the set of its keys.        *)
(* A float quotient is kept exact as a fraction [num, den].                *)
(***************************************************************************)
EXTENDS Integers, Sequences, FiniteSets, TLC

\* ---------------------------------------------------------------- bounds
MaxCounter == 1

\* ------------------------------------------------------- Python helpers
None == <<>>
Some(v) == <<v>>
IsNone(x) == x = <<>>
Val(x) == x[1]

EmptyDict == [k \in {} |-> 0]
DictSet(d, k, v) == [x \in (DOMAIN d) \cup {k} |-> IF x = k THEN v ELSE d[x]]
DictGet(d, k, default) == IF k \in DOMAIN d THEN d[k] ELSE default

\* an exact quotient n/d*100 of the float arithmetic; Zero is the literal 0
Zero == [num |-> 0, den |-> 1]
Percent(n, d) == [num |-> n * 100, den |-> d]

\* ------------------------------------------------------------- const.py
SYNTHETIC_VARS == {"Qcache_utilization", "Qcache_instant_utilization"}
STATUS_VARS == {"Qcache_hits", "Qcache_inserts", "Qcache_not_cached", "Threads_connected"}

\* ------------------------------------------------------------ inputs
Counters == 0..MaxCounter

\* the rows of SHOW GLOBAL STATUS that feed the synthetic metrics: every
\* counter is reported or not on its own
Samples ==
  { [k \in ks |-> IF k = "Qcache_hits" THEN h ELSE IF k = "Qcache_inserts" THEN i ELSE m] :
      ks \in SUBSET {"Qcache_hits", "Qcache_inserts", "Qcache_not_cached"},
      h \in Counters, i \in Counters, m \in Counters }

\* the instances a process is configured with: a TCP target, a socket
\* target and an instance without server and user
Instances ==
  { [server |-> "db1", port |-> 3306, sock |-> "", defaults_file |-> "", user |-> "dog"],
    [server |-> "db1", port |-> 0, sock |-> "/run/mysqld.sock", defaults_file |-> "", user |-> "dog"],
    [server |-> "", port |-> 0, sock |-> "", defaults_file |-> "", user |-> ""] }

VARIABLES
  pc,                 \* position of the pass inside MySql.check
  host, port, mysql_sock, defaults_file, user,   \* self.host ... set by _get_config
  qcache_stats,       \* self.qcache_stats: host key -> (hits, inserts, not_cached)
  qcache_hits, qcache_inserts, qcache_not_cached,   \* self._qcache_*
  results,            \* the result map of the pass
  metrics,            \* the descriptor catalog (names of the variables to submit)
  submitted,          \* names handed to the submission sink in this pass
  can_connect,        \* statuses emitted for mysql.can_connect in this pass
  raised,             \* the exception that left check(), "" when none
  field_src,          \* history: where each self._qcache_* field comes from, the
                      \* entry loaded at the start of the pass or its sample
  put_src,            \* history: field_src at the store of this pass, <<>> before
  entry_before,       \* history: the stored entry of the identity when the pass started
  divided,            \* history: the pass evaluated the quotient top / bottom
  hostkey,            \* the value returned by _get_host_key
  version,            \* self.metadata.version.split('.')
  PY3,                \* six.PY3: the interpreter the check runs under
  slave_running_status,  \* the status computed by the replication classifier
  compatible,         \* the value returned by _version_compatible, <<>> before
  server_version,     \* the '-' segments of the string "select version()" returns
  metadata,           \* self.metadata: version, flavor and build
  dump,               \* the lines of SHOW ENGINE INNODB STATUS
  lineno,             \* the number of lines of the dump the parser has read
  txn_seen,           \* the parser's latch set by the "Trx id counter" line
  buffer_id,          \* the parser's current buffer-pool instance, -1 for none
  options,            \* instance['options'] of the pass
  innodb_enabled,     \* what _is_innodb_engine_enabled returns in the pass
  queries,            \* instance['queries']: the legacy custom queries
  max_custom_queries, \* instance['max_custom_queries']
  executed,           \* the custom queries handed to _collect_dict, in order
  warnings,           \* the messages of self.warning in the pass
  emitted,            \* the gauges and service checks emitted, in order
  passes,             \* the overlapping passes of one check object
  instance_tags       \* instance['tags']: the configured tag list

qvars == <<pc, host, port, mysql_sock, defaults_file, user, qcache_stats,
           qcache_hits, qcache_inserts, qcache_not_cached, results, metrics,
           submitted, can_connect, raised, field_src, put_src, entry_before,
           divided>>

rvars == <<version, PY3, slave_running_status>>

\* the version check, the metadata, the engine-status parser and the options
pvars == <<compatible, server_version, metadata, dump, lineno, txn_seen,
           buffer_id, options, innodb_enabled>>

\* the custom queries, the emissions, overlapping passes and the tags
xvars == <<queries, max_custom_queries, executed, warnings, emitted, passes,
           instance_tags>>

vars == <<qvars, hostkey, rvars, pvars, xvars>>

\* ------------------------------------------------------- _get_host_key
Format(a, b) == a \o ":" \o b

\* the order host + port, host + socket path, defaults file
_get_host_key_port_first(h, p, s, d) ==
  IF p # 0 THEN Format(h, ToString(p))
  ELSE IF s # "" THEN Format(h, s)
  ELSE IF d # "" THEN d
  ELSE h

_get_host_key(h, p, s, d) ==
  IF d # "" THEN d
  ELSE IF s # "" THEN Format(h, s)
  ELSE IF p # 0 THEN Format(h, ToString(p))
  ELSE h

host_key == _get_host_key(host, port, mysql_sock, defaults_file)

\* --------------------------------------------- _compute_synthetic_results
\* res: the result map; ph, pi, pm: self._qcache_hits/_inserts/_not_cached.
\* Returns the result map, the three fields, the exception raised ("" when
\* none) and whether the instantaneous quotient top / bottom was evaluated.
HasQcache(res) ==
  /\ "Qcache_hits" \in DOMAIN res
  /\ "Qcache_inserts" \in DOMAIN res
  /\ "Qcache_not_cached" \in DOMAIN res

\* a denominator that leaves the hits out
Qcache_utilization_misses(res) ==
  IF res["Qcache_hits"] = 0
  THEN Zero
  ELSE Percent(res["Qcache_hits"], res["Qcache_inserts"] + res["Qcache_not_cached"] + 1)

Qcache_utilization(res) ==
  IF res["Qcache_hits"] = 0
  THEN Zero
  ELSE Percent(res["Qcache_hits"],
               res["Qcache_inserts"] + res["Qcache_not_cached"] + res["Qcache_hits"])

AllPrior(ph, pi, pm) == ~IsNone(ph) /\ ~IsNone(pi) /\ ~IsNone(pm)

\* a slip that repeats the test of the cumulative branch
ZeroHitDelta_hits(res, ph) == res["Qcache_hits"] = 0

\* "if not (int(results['Qcache_hits']) - self._qcache_hits)"
ZeroHitDelta(res, ph) == res["Qcache_hits"] - Val(ph) = 0

InstantTop(res, ph) == res["Qcache_hits"] - Val(ph)

InstantBottom(res, ph, pi, pm) ==
  (res["Qcache_inserts"] - Val(pi))
  + (res["Qcache_not_cached"] - Val(pm))
  + (res["Qcache_hits"] - Val(ph))

_compute_synthetic_results(res, ph, pi, pm) ==
  IF ~HasQcache(res)
  THEN [results |-> res, hits |-> ph, inserts |-> pi, not_cached |-> pm,
        updated |-> <<FALSE, FALSE, FALSE>>, exc |-> "", divided |-> FALSE]
  ELSE
    LET r1 == DictSet(res, "Qcache_utilization", Qcache_utilization(res))
        upd(r, d) == [results |-> r,
                      hits |-> Some(res["Qcache_hits"]),
                      inserts |-> Some(res["Qcache_inserts"]),
                      not_cached |-> Some(res["Qcache_not_cached"]),
                      updated |-> <<TRUE, TRUE, TRUE>>, exc |-> "", divided |-> d]
    IN IF ~AllPrior(ph, pi, pm)
       THEN upd(r1, FALSE)
       ELSE IF ZeroHitDelta(res, ph)
       THEN upd(DictSet(r1, "Qcache_instant_utilization", Zero), FALSE)
       ELSE IF InstantBottom(res, ph, pi, pm) = 0
       THEN [results |-> r1, hits |-> ph, inserts |-> pi, not_cached |-> pm,
             updated |-> <<FALSE, FALSE, FALSE>>, exc |-> "ZeroDivisionError",
             divided |-> TRUE]
       ELSE upd(DictSet(r1, "Qcache_instant_utilization",
                        Percent(InstantTop(res, ph), InstantBottom(res, ph, pi, pm))), TRUE)

\* a catalog that forgets the pruning loop
PruneSynthetic_keep(cat, res) == cat \cup SYNTHETIC_VARS

\* the catalog after "metrics.update(SYNTHETIC_VARS)" and the pruning loop
PruneSynthetic(cat, res) ==
  (cat \cup SYNTHETIC_VARS) \ {k \in SYNTHETIC_VARS : k \notin DOMAIN res}

\* _submit_metrics: a descriptor is emitted when its key has a value
_submit_metrics(cat, res) == {v \in cat : v \in DOMAIN res}

\* ------------------------------------------------------------ the pass
Entry(stats, key) == DictGet(stats, key, <<None, None, None>>)
Loaded == <<"stored", "stored", "stored">>

\* the state of a check object right after __init__
Constructed ==
  /\ qcache_stats = EmptyDict
  /\ qcache_hits = None /\ qcache_inserts = None /\ qcache_not_cached = None
  /\ metrics = STATUS_VARS
  /\ submitted = {}
  /\ can_connect = <<>>
  /\ raised = ""
  /\ field_src = Loaded
  /\ put_src = <<>>
  /\ entry_before = <<None, None, None>>
  /\ divided = FALSE
  /\ hostkey = ""
  /\ slave_running_status = "UNSET"

NoTarget == host = "" /\ port = 0 /\ mysql_sock = "" /\ defaults_file = "" /\ user = ""
NoServer == version = <<0, 0, 0>> /\ PY3 = TRUE
NoVersionCheck == compatible = None
NoMetadata == server_version = <<>> /\ metadata = None
NoDump == dump = <<>> /\ lineno = 0 /\ txn_seen = FALSE /\ buffer_id = -1
NoOptions == options = EmptyDict /\ innodb_enabled = FALSE
NoQueries ==
  /\ queries = <<>> /\ max_custom_queries = 0 /\ executed = <<>> /\ warnings = <<>>
NoExtras == NoQueries /\ emitted = <<>> /\ passes = <<>> /\ instance_tags = <<>>
NoParts == NoVersionCheck /\ NoMetadata /\ NoDump /\ NoOptions /\ NoExtras

Init ==
  /\ pc = "idle"
  /\ Constructed /\ NoTarget /\ NoServer /\ NoParts
  /\ results = EmptyDict

\* check(): _get_config, _set_qcache_stats and the "host and user" test
CheckBegin(inst) ==
  /\ pc = "idle"
  /\ host' = inst.server /\ port' = inst.port /\ mysql_sock' = inst.sock
  /\ defaults_file' = inst.defaults_file /\ user' = inst.user
  /\ LET key == _get_host_key(inst.server, inst.port, inst.sock, inst.defaults_file)
         st == Entry(qcache_stats, key)
     IN /\ qcache_hits' = st[1]
        /\ qcache_inserts' = st[2]
        /\ qcache_not_cached' = st[3]
        /\ field_src' = Loaded
        /\ entry_before' = st
  /\ results' = EmptyDict /\ submitted' = {} /\ can_connect' = <<>> /\ divided' = FALSE
  /\ put_src' = <<>>
  /\ IF ~(inst.server # "" /\ inst.user # "") /\ inst.defaults_file = ""
     THEN pc' = "raised" /\ raised' = "Exception"
     ELSE pc' = "connect" /\ raised' = ""
  /\ UNCHANGED <<qcache_stats, metrics, hostkey, rvars, pvars, xvars>>

\* a connection whose failure is raised without a service check
Connect_quiet(ok) ==
  /\ pc = "connect"
  /\ IF ok
     THEN /\ can_connect' = Append(can_connect, "OK")
          /\ pc' = "collect"
          /\ raised' = raised
     ELSE /\ can_connect' = can_connect
          /\ pc' = "raised"
          /\ raised' = "OperationalError"
  /\ UNCHANGED <<host, port, mysql_sock, defaults_file, user, qcache_stats,
                 qcache_hits, qcache_inserts, qcache_not_cached, results, metrics,
                 submitted, field_src, put_src, entry_before, divided,
                 hostkey, rvars, pvars, xvars>>

\* _connect: pymysql.connect succeeds or raises
Connect(ok) ==
  /\ pc = "connect"
  /\ IF ok
     THEN /\ can_connect' = Append(can_connect, "OK")
          /\ pc' = "collect"
          /\ raised' = raised
     ELSE /\ can_connect' = Append(can_connect, "CRITICAL")
          /\ pc' = "raised"
          /\ raised' = "OperationalError"
  /\ UNCHANGED <<host, port, mysql_sock, defaults_file, user, qcache_stats,
                 qcache_hits, qcache_inserts, qcache_not_cached, results, metrics,
                 submitted, field_src, put_src, entry_before, divided,
                 hostkey, rvars, pvars, xvars>>

\* an exception inside the "with self._connect(...)" body is thrown into
\* _connect at its yield: "except Exception" emits CRITICAL and re-raises
RaiseInBody(exc) ==
  /\ can_connect' = Append(can_connect, "CRITICAL")
  /\ pc' = "raised"
  /\ raised' = exc

\* _get_metadata, _collect_metrics and _collect_system_metrics.
\* fail = "before": a query of the collection raises before the synthetic
\* step; fail = "after": submission or system metrics raise after it.
CollectMetrics(sample, fail) ==
  /\ pc = "collect"
  /\ IF fail = "before"
     THEN /\ RaiseInBody("OperationalError")
          /\ UNCHANGED <<qcache_hits, qcache_inserts, qcache_not_cached, results,
                         metrics, submitted, field_src, divided>>
     ELSE LET syn == _compute_synthetic_results(sample, qcache_hits, qcache_inserts,
                                                qcache_not_cached)
          IN /\ results' = syn.results
             /\ qcache_hits' = syn.hits
             /\ qcache_inserts' = syn.inserts
             /\ qcache_not_cached' = syn.not_cached
             /\ field_src' = [n \in 1..3 |-> IF syn.updated[n] THEN "sample" ELSE field_src[n]]
             /\ divided' = syn.divided
             /\ IF syn.exc # ""
                THEN /\ RaiseInBody(syn.exc)
                     /\ metrics' = metrics \cup SYNTHETIC_VARS
                     /\ submitted' = submitted
                ELSE /\ metrics' = PruneSynthetic(metrics, syn.results)
                     /\ submitted' = _submit_metrics(PruneSynthetic(metrics, syn.results),
                                                      syn.results)
                     /\ IF fail = "after"
                        THEN RaiseInBody("ValueError")
                        ELSE /\ pc' = "put"
                             /\ raised' = raised
                             /\ can_connect' = can_connect
  /\ UNCHANGED <<host, port, mysql_sock, defaults_file, user, qcache_stats,
                 put_src, entry_before, hostkey, rvars, pvars, xvars>>

\* a store that writes the hits and keeps the other two stored counters
PutQcacheStats_partial ==
  /\ pc = "put"
  /\ qcache_stats' = DictSet(qcache_stats, host_key,
                             <<qcache_hits, Entry(qcache_stats, host_key)[2],
                               Entry(qcache_stats, host_key)[3]>>)
  /\ put_src' = <<field_src[1], "stored", "stored">>
  /\ pc' = "custom"
  /\ UNCHANGED <<host, port, mysql_sock, defaults_file, user,
                 qcache_hits, qcache_inserts, qcache_not_cached, results, metrics,
                 submitted, can_connect, raised, field_src, entry_before,
                 divided, hostkey, rvars, pvars, xvars>>

\* _put_qcache_stats
PutQcacheStats ==
  /\ pc = "put"
  /\ qcache_stats' = DictSet(qcache_stats, host_key,
                             <<qcache_hits, qcache_inserts, qcache_not_cached>>)
  /\ put_src' = field_src
  /\ pc' = "custom"
  /\ UNCHANGED <<host, port, mysql_sock, defaults_file, user,
                 qcache_hits, qcache_inserts, qcache_not_cached, results, metrics,
                 submitted, can_connect, raised, field_src, entry_before,
                 divided, hostkey, rvars, pvars, xvars>>

\* self._query_manager.execute(): returns or raises
ExecuteCustomQueries(ok) ==
  /\ pc = "custom"
  /\ IF ok
     THEN pc' = "done" /\ raised' = raised /\ can_connect' = can_connect
     ELSE RaiseInBody("QueryError")
  /\ UNCHANGED <<host, port, mysql_sock, defaults_file, user, qcache_stats,
                 qcache_hits, qcache_inserts, qcache_not_cached, results, metrics,
                 submitted, field_src, put_src, entry_before, divided,
                 hostkey, rvars, pvars, xvars>>

\* check() has returned or raised: its locals and the emissions of the pass
\* are gone, the fields of the check object stay; the scheduler may start
\* the next pass
Return ==
  /\ pc \in {"done", "raised"}
  /\ pc' = "idle"
  /\ results' = EmptyDict /\ submitted' = {} /\ can_connect' = <<>>
  /\ raised' = "" /\ divided' = FALSE /\ entry_before' = <<None, None, None>>
  /\ field_src' = Loaded /\ put_src' = <<>>
  /\ UNCHANGED <<host, port, mysql_sock, defaults_file, user, qcache_stats,
                 qcache_hits, qcache_inserts, qcache_not_cached, metrics,
                 hostkey, rvars, pvars, xvars>>

Next ==
  \/ \E inst \in Instances : CheckBegin(inst)
  \/ \E ok \in BOOLEAN : Connect(ok)
  \/ \E sample \in Samples, fail \in {"", "before", "after"} : CollectMetrics(sample, fail)
  \/ PutQcacheStats
  \/ \E ok \in BOOLEAN : ExecuteCustomQueries(ok)
  \/ Return

Spec == Init /\ [][Next]_vars

\* ============================================================ properties
NoEntry == <<None, None, None>>
AllPresent(e) == ~IsNone(e[1]) /\ ~IsNone(e[2]) /\ ~IsNone(e[3])
Collected == pc \in {"put", "custom", "done"}

\* C1: in every reachable state the stored query-cache entry of every server
\* identity is (None, None, None) or three integers set by one and the same
\* sample: never a mix of absent and present counters, never counters of
\* two different samples (every store writes three counters that all come
\* from the sample of its pass, or all from the entry the pass loaded).
C1_EntryAllOrNone ==
  /\ \A k \in DOMAIN qcache_stats :
        qcache_stats[k] = NoEntry \/ AllPresent(qcache_stats[k])
  /\ put_src # <<>> =>
        /\ put_src \in {Loaded, <<"sample", "sample", "sample">>}
        /\ put_src = Loaded => Entry(qcache_stats, host_key) = entry_before
        /\ put_src # Loaded =>
              Entry(qcache_stats, host_key) =
                <<Some(results["Qcache_hits"]), Some(results["Qcache_inserts"]),
                  Some(results["Qcache_not_cached"])>>

\* an entry written by a first sample has been overwritten by a later sample
\* with three other counters
C1_Witness ==
  /\ pc = "done"
  /\ AllPresent(entry_before)
  /\ put_src = <<"sample", "sample", "sample">>
  /\ \A n \in 1..3 : qcache_stats[host_key][n] # entry_before[n]

\* C2: a pass that raises leaves the stored entry of its identity as it was
\* when the pass started.
C2_RaisedKeepsEntry ==
  pc = "raised" => Entry(qcache_stats, host_key) = entry_before

\* C3: in a pass that starts without a stored entry (first sample of the
\* identity), and more generally whenever one of the three prior counters is
\* absent, Qcache_instant_utilization is neither in the result map nor in
\* the descriptor catalog nor submitted.
C3_NoInstantOnFirstPass ==
  (Collected /\ ~AllPresent(entry_before)) =>
     /\ "Qcache_instant_utilization" \notin DOMAIN results
     /\ "Qcache_instant_utilization" \notin metrics
     /\ "Qcache_instant_utilization" \notin submitted

\* a first pass for an identity that reports the cumulative metric, while
\* another identity has its counters stored
C3_Witness ==
  /\ pc = "done"
  /\ entry_before = NoEntry
  /\ "Qcache_utilization" \in submitted
  /\ \E k \in DOMAIN qcache_stats : k # host_key /\ AllPresent(qcache_stats[k])

\* C4: a pass that finds a stored sample for its identity and reads the same
\* Qcache_hits as that sample reports Qcache_instant_utilization = 0 and
\* evaluates no quotient.
C4_ZeroHitDelta ==
  (/\ Collected
   /\ AllPresent(entry_before)
   /\ HasQcache(results)
   /\ results["Qcache_hits"] = Val(entry_before[1])) =>
     /\ "Qcache_instant_utilization" \in DOMAIN results
     /\ results["Qcache_instant_utilization"] = Zero
     /\ "Qcache_instant_utilization" \in submitted
     /\ ~divided

\* the second of two consecutive successful passes of one identity, with the
\* same non-zero hits and another inserts counter
C4_Witness ==
  /\ pc = "done"
  /\ AllPresent(entry_before)
  /\ HasQcache(results)
  /\ results["Qcache_hits"] = Val(entry_before[1])
  /\ results["Qcache_hits"] > 0
  /\ results["Qcache_inserts"] # Val(entry_before[2])
  /\ put_src = <<"sample", "sample", "sample">>

\* ================================================ cumulative utilization
\* The synthetic step on its own, applied to every result map over
\* UtilCounters with no prior counters stored.
UtilCounters == {0, 20, 30, 50}

UtilSamples ==
  { [k \in ks |-> IF k = "Qcache_hits" THEN h ELSE IF k = "Qcache_inserts" THEN i ELSE m] :
      ks \in SUBSET {"Qcache_hits", "Qcache_inserts", "Qcache_not_cached"},
      h \in UtilCounters, i \in UtilCounters, m \in UtilCounters }

InitUtil ==
  /\ pc = "synthetic"
  /\ Constructed /\ NoTarget /\ NoServer /\ NoParts
  /\ results \in UtilSamples

ComputeSynthetic ==
  /\ pc = "synthetic"
  /\ LET syn == _compute_synthetic_results(results, qcache_hits, qcache_inserts,
                                           qcache_not_cached)
     IN /\ results' = syn.results
        /\ qcache_hits' = syn.hits
        /\ qcache_inserts' = syn.inserts
        /\ qcache_not_cached' = syn.not_cached
        /\ divided' = syn.divided
        /\ raised' = syn.exc
  /\ pc' = "computed"
  /\ UNCHANGED <<host, port, mysql_sock, defaults_file, user, qcache_stats, metrics,
                 submitted, can_connect, field_src, put_src, entry_before,
                 hostkey, rvars, pvars, xvars>>

NextUtil == ComputeSynthetic

SpecUtil == InitUtil /\ [][NextUtil]_vars

\* C5: when the three counters are present, Qcache_utilization is
\* hits / (hits + inserts + misses) * 100, and exactly 0 when hits is 0;
\* hits=50, inserts=30, misses=20 gives 50.
C5_Utilization ==
  (pc = "computed" /\ HasQcache(results)) =>
     /\ "Qcache_utilization" \in DOMAIN results
     /\ LET u == results["Qcache_utilization"]
            h == results["Qcache_hits"]
            total == results["Qcache_hits"] + results["Qcache_inserts"]
                     + results["Qcache_not_cached"]
        IN /\ u.den > 0
           /\ h = 0 => u = Zero
           /\ h # 0 => u.num * total = h * 100 * u.den
           /\ (h = 50 /\ results["Qcache_inserts"] = 30 /\ results["Qcache_not_cached"] = 20)
                => u.num = 50 * u.den

\* the utilization of hits=50, inserts=30, misses=20 has been computed
C5_Witness ==
  /\ pc = "computed"
  /\ HasQcache(results)
  /\ results["Qcache_hits"] = 50
  /\ results["Qcache_inserts"] = 30
  /\ results["Qcache_not_cached"] = 20
  /\ "Qcache_utilization" \in DOMAIN results

\* ========================================================= the identity
Hosts == {"", "db1"}
Ports == {0, 3306, 3307}
Socks == {"", "/run/a.sock", "/run/b.sock"}
DefaultsFiles == {"", "/etc/a.cnf", "/etc/b.cnf"}

InitKey ==
  /\ pc = "config"
  /\ Constructed /\ NoServer /\ NoParts
  /\ results = EmptyDict
  /\ host \in Hosts /\ port \in Ports /\ mysql_sock \in Socks
  /\ defaults_file \in DefaultsFiles /\ user = "dog"

GetHostKey ==
  /\ pc = "config"
  /\ hostkey' = _get_host_key(host, port, mysql_sock, defaults_file)
  /\ pc' = "keyed"
  /\ UNCHANGED <<host, port, mysql_sock, defaults_file, user, qcache_stats,
                 qcache_hits, qcache_inserts, qcache_not_cached, results, metrics,
                 submitted, can_connect, raised, field_src, put_src,
                 entry_before, divided, rvars, pvars, xvars>>

NextKey == GetHostKey

SpecKey == InitKey /\ [][NextKey]_vars

\* C6 as stated: host+port has the first priority, so a configured port
\* gives the key host:port whatever the socket path and defaults file are,
\* and the defaults file is the key only when there is no port and no socket.
C6_PortFirst ==
  pc = "keyed" =>
     /\ port # 0 => hostkey = host \o ":" \o ToString(port)
     /\ hostkey = defaults_file => (port = 0 /\ mysql_sock = "")

\* C6 as amended: the priority is the defaults file, then host + socket
\* path, then host + port, then the host alone.
C6_DefaultsFileFirst ==
  pc = "keyed" =>
     /\ defaults_file # "" => hostkey = defaults_file
     /\ (defaults_file = "" /\ mysql_sock # "") => hostkey = host \o ":" \o mysql_sock
     /\ (defaults_file = "" /\ mysql_sock = "" /\ port # 0)
          => hostkey = host \o ":" \o ToString(port)
     /\ (defaults_file = "" /\ mysql_sock = "" /\ port = 0) => hostkey = host

\* the key of a target that has a port, a socket path and a defaults file
C6_Witness ==
  /\ pc = "keyed"
  /\ port # 0 /\ mysql_sock # "" /\ defaults_file # "" /\ host # ""
  /\ hostkey = defaults_file

\* ============================================ the replication classifier
MaxChannels == 2
MaxSlaves == 1

Channels == {"channel:" \o ToString(n) : n \in 1..MaxChannels}
ThreadStates == {"Yes", "No"}
Versions == {<<5, 6, 30>>, <<5, 7, 0>>, <<8, 0, 1>>}

\* SHOW SLAVE STATUS as stored by _get_replica_stats: per key, the value of
\* every channel that reports one; a key no channel reports is absent
ChannelMaps(vals) ==
  UNION {[cs -> vals] : cs \in (SUBSET Channels) \ {{}}}

ReplicaKeys == {"Slave_running", "Slaves_connected", "Master_Host", "Binlog_enabled",
                "Slave_IO_Running", "Slave_SQL_Running"}

Optional(vals) == {None} \cup {Some(v) : v \in vals}

\* the result map that holds the keys whose option is a value
ResultMap(opt) == [k \in {x \in DOMAIN opt : ~IsNone(opt[x])} |-> Val(opt[k])]

\* the replication part of the result map after _get_stats_from_status,
\* _get_replica_stats and _get_slave_status: every key present or absent
ReplicaResults ==
  { ResultMap([Slave_running |-> sr, Slaves_connected |-> sc, Master_Host |-> mh,
               Binlog_enabled |-> be, Slave_IO_Running |-> io, Slave_SQL_Running |-> sql]) :
      sr \in Optional({"ON", "OFF"}),
      sc \in Optional(0..MaxSlaves),
      mh \in Optional({[c \in {"channel:1"} |-> "db0"]}),
      be \in Optional({TRUE}),
      io \in Optional(ChannelMaps(ThreadStates)),
      sql \in Optional(ChannelMaps(ThreadStates)) }

\* collection_utils: the value under the key, None when the key is absent
collect_type(key, mapping) == IF key \in DOMAIN mapping THEN Some(mapping[key]) ELSE None
collect_scalar(key, mapping) == collect_type(key, mapping)
collect_string(key, mapping) == collect_type(key, mapping)

\* str.lower().strip() on the words the server reports
Lower(str) ==
  CASE str = "Yes" -> "yes"
    [] str = "No" -> "no"
    [] str = "ON" -> "on"
    [] str = "OFF" -> "off"
    [] OTHER -> str

\* "any(v.lower().strip() == 'yes' for v in itervalues(...))", applied to a
\* dict that is present (a stored dict has at least one channel)
AnyYes(flag) ==
  IF IsNone(flag) THEN None
  ELSE Some(\E c \in DOMAIN Val(flag) : Lower(Val(flag)[c]) = "yes")

\* truth value of None / True / False
Truthy(flag) == ~IsNone(flag) /\ Val(flag)

\* tuple comparison "version >= compat_version"
TupleGE(a, b) ==
  \/ a[1] > b[1]
  \/ a[1] = b[1] /\ a[2] > b[2]
  \/ a[1] = b[1] /\ a[2] = b[2] /\ a[3] >= b[3]

_version_compatible(ver, compat) ==
  IF Len(ver) < 3
  THEN [exc |-> "IndexError", ok |-> FALSE]
  ELSE [exc |-> "", ok |-> TupleGE(<<ver[1], ver[2], ver[3]>>, compat)]

\* a test that calls one stopped thread critical
ThreadStatus_or(io, sql) ==
  IF Truthy(io) /\ Truthy(sql) THEN "OK"
  ELSE IF ~Truthy(io) \/ ~Truthy(sql) THEN "CRITICAL"
  ELSE "WARNING"

\* lines 406-412
ThreadStatus(io, sql) ==
  IF Truthy(io) /\ Truthy(sql) THEN "OK"
  ELSE IF ~Truthy(io) /\ ~Truthy(sql) THEN "CRITICAL"
  ELSE "WARNING"

\* lines 390-416: the rules on the IO and SQL thread flags
ThreadRules(res, ver) ==
  LET slave_running == collect_string("Slave_running", res)
      io == AnyYes(collect_type("Slave_IO_Running", res))
      sql == AnyYes(collect_type("Slave_SQL_Running", res))
      vc == _version_compatible(ver, <<5, 7, 0>>)
  IN IF vc.exc # "" THEN [status |-> "UNKNOWN", exc |-> vc.exc]
     ELSE IF vc.ok
     THEN IF ~(IsNone(io) /\ IsNone(sql))
          THEN [status |-> ThreadStatus(io, sql), exc |-> ""]
          ELSE [status |-> "UNKNOWN", exc |-> ""]
     ELSE IF IsNone(slave_running)
     THEN [status |-> "UNKNOWN", exc |-> "AttributeError"]
     ELSE IF Lower(Val(slave_running)) = "off"
     THEN IF ~(IsNone(io) /\ IsNone(sql)) /\ ~Truthy(io) /\ ~Truthy(sql)
          THEN [status |-> "CRITICAL", exc |-> ""]
          ELSE [status |-> "UNKNOWN", exc |-> ""]
     ELSE [status |-> "UNKNOWN", exc |-> ""]

\* "slaves > 0": comparing None with 0 is False under Python 2 and a
\* TypeError under Python 3
GreaterThanZero(n, py3) ==
  IF IsNone(n)
  THEN IF py3 THEN [exc |-> "TypeError", value |-> FALSE] ELSE [exc |-> "", value |-> FALSE]
  ELSE [exc |-> "", value |-> Val(n) > 0]

\* a test that takes only a host with replicas for a source
_is_master_replicas_only(slaves, res, py3) ==
  GreaterThanZero(slaves, py3)

\* a Master_Host that is present is a non-empty string
_is_master(slaves, res, py3) ==
  LET master_host == collect_string("Master_Host", res)
      gt == GreaterThanZero(slaves, py3)
  IN IF gt.exc # "" THEN gt
     ELSE [exc |-> "", value |-> gt.value \/ IsNone(master_host)]

\* lines 418-429: the rules applied while the status is UNKNOWN
RoleRules(res, py3) ==
  LET slave_running == collect_string("Slave_running", res)
      binlog_running == DictGet(res, "Binlog_enabled", FALSE)
      slaves == collect_scalar("Slaves_connected", res)
      master == _is_master(slaves, res, py3)
  IN IF master.exc # "" THEN [status |-> "UNKNOWN", exc |-> master.exc]
     ELSE IF master.value
     THEN IF GreaterThanZero(slaves, py3).value /\ binlog_running
          THEN [status |-> "OK", exc |-> ""]
          ELSE [status |-> "WARNING", exc |-> ""]
     ELSE IF ~IsNone(slave_running) /\ Val(slave_running) # ""
     THEN IF Lower(Val(slave_running)) = "on"
          THEN [status |-> "OK", exc |-> ""]
          ELSE [status |-> "CRITICAL", exc |-> ""]
     ELSE [status |-> "UNKNOWN", exc |-> ""]

Classify(res, ver, py3) ==
  LET t == ThreadRules(res, ver)
  IN IF t.exc # "" \/ t.status # "UNKNOWN" THEN t ELSE RoleRules(res, py3)

InitRepl ==
  /\ pc = "replication"
  /\ Constructed /\ NoTarget /\ NoParts
  /\ results \in ReplicaResults
  /\ version \in Versions
  /\ PY3 \in BOOLEAN

\* line 432: 1 if slave_running_status == AgentCheck.OK else 0
SlaveRunningGauge(status) == IF status = "OK" THEN 1 ELSE 0

\* lines 432-433: the gauge and the service check of the classifier
EmitSlaveRunning(status) ==
  << [kind |-> "gauge", name |-> "mysql.replication.slave_running",
      value |-> SlaveRunningGauge(status)],
     [kind |-> "service_check", name |-> "mysql.replication.slave_running",
      status |-> status] >>

\* lines 389-433 of a pass with the replication option
ClassifyReplication ==
  /\ pc = "replication"
  /\ LET c == Classify(results, version, PY3)
     IN /\ raised' = c.exc
        /\ slave_running_status' = IF c.exc = "" THEN c.status ELSE slave_running_status
        /\ emitted' = IF c.exc = "" THEN emitted \o EmitSlaveRunning(c.status) ELSE emitted
  /\ pc' = "classified"
  /\ UNCHANGED <<host, port, mysql_sock, defaults_file, user, qcache_stats,
                 qcache_hits, qcache_inserts, qcache_not_cached, results, metrics,
                 submitted, can_connect, field_src, put_src, entry_before,
                 divided, hostkey, version, PY3, pvars, queries,
                 max_custom_queries, executed, warnings, passes, instance_tags>>

NextRepl == ClassifyReplication

SpecRepl == InitRepl /\ [][NextRepl]_vars

\* the inputs as the claims name them
Has(k) == k \in DOMAIN results
Running(k) == \E c \in DOMAIN results[k] : results[k][c] = "Yes"
AtLeast570 == version[1] > 5 \/ (version[1] = 5 /\ version[2] >= 7)
LegacyOn == Has("Slave_running") /\ results["Slave_running"] = "ON"
HasReplica == Has("Slaves_connected") /\ results["Slaves_connected"] >= 1
ActingAsSource == HasReplica \/ ~Has("Master_Host")

\* C7: for a version >= 5.7.0 with both thread flags present the status is
\* OK iff both run in some channel, CRITICAL iff both are stopped and
\* WARNING otherwise, whatever Slave_running, the replica count and the
\* binlog flag are.
C7_ThreadFlags ==
  (/\ pc = "classified"
   /\ AtLeast570
   /\ Has("Slave_IO_Running") /\ Has("Slave_SQL_Running")) =>
     /\ raised = ""
     /\ slave_running_status =
          IF Running("Slave_IO_Running") /\ Running("Slave_SQL_Running") THEN "OK"
          ELSE IF ~Running("Slave_IO_Running") /\ ~Running("Slave_SQL_Running")
          THEN "CRITICAL"
          ELSE "WARNING"

\* one channel of two has a running IO thread, no SQL thread runs, and the
\* legacy variable and the role inputs say OK
C7_Witness ==
  /\ pc = "classified"
  /\ version = <<5, 7, 0>>
  /\ Has("Slave_IO_Running") /\ Has("Slave_SQL_Running")
  /\ Running("Slave_IO_Running")
  /\ \E c \in DOMAIN results["Slave_IO_Running"] : results["Slave_IO_Running"][c] = "No"
  /\ ~Running("Slave_SQL_Running")
  /\ LegacyOn /\ HasReplica /\ Has("Binlog_enabled")
  /\ slave_running_status = "WARNING"

C9_Total ==
  pc = "classified" =>
     /\ raised = ""
     /\ slave_running_status \in {"UNKNOWN", "OK", "WARNING", "CRITICAL"}

\* C10: when the thread-flag rules leave the status UNKNOWN, a host acting
\* as source gets OK with a replica and binlog and WARNING otherwise,
\* whatever the legacy variable is; a host not acting as source gets the
\* legacy verdict ("on": OK, else CRITICAL) when the variable is present;
\* otherwise the status stays UNKNOWN.
C10_RuleOrder ==
  (/\ pc = "classified"
   /\ ThreadRules(results, version) = [status |-> "UNKNOWN", exc |-> ""]) =>
     /\ raised = ""
     /\ slave_running_status =
          IF ActingAsSource
          THEN IF HasReplica /\ Has("Binlog_enabled") THEN "OK" ELSE "WARNING"
          ELSE IF Has("Slave_running")
          THEN IF LegacyOn THEN "OK" ELSE "CRITICAL"
          ELSE "UNKNOWN"

\* ------------------------------------------------- C11: absent thread flag
\* C11: the thread-flag rules give CRITICAL only when both the IO and the
\* SQL flag are present and both report not running; a pass where one flag
\* is absent and the other reports stopped gets no CRITICAL from them.
C11_AbsentIsNotStopped ==
  (/\ pc = "classified"
   /\ ThreadRules(results, version) = [status |-> "CRITICAL", exc |-> ""]) =>
     /\ Has("Slave_IO_Running") /\ Has("Slave_SQL_Running")
     /\ ~Running("Slave_IO_Running") /\ ~Running("Slave_SQL_Running")

\* ------------------------------------------------- the version comparison
MaxSegments == 3

\* the '.' segments a server version is made of; "51a" is the patch level
\* of a version such as 5.0.51a
Segments == {"0", "5", "7", "8", "51a"}

\* int(s) accepts a segment made of digits only
IsDigits(s) == s \in {"0", "5", "7", "8"}

\* re.match(r"([0-9]+)", s).group(1): the leading digits of a segment
LeadingDigits(s) ==
  CASE s = "0" -> 0
    [] s = "5" -> 5
    [] s = "7" -> 7
    [] s = "8" -> 8
    [] s = "51a" -> 51

VersionStrings == UNION { [1..n -> Segments] : n \in 1..MaxSegments }

\* the minimum versions _collect_metrics asks for
CompatVersions == {<<5, 6, 0>>, <<5, 6, 6>>, <<5, 7, 0>>}

\* lines 503-504: the conversions of the three segments; a version with
\* fewer segments is handed on as it is and fails at the index [2]
ParseVersion(segs) ==
  IF Len(segs) >= 3 /\ ~(IsDigits(segs[1]) /\ IsDigits(segs[2]))
  THEN [exc |-> "ValueError", ver |-> <<>>]
  ELSE [exc |-> "", ver |-> [i \in DOMAIN segs |-> LeadingDigits(segs[i])]]

InitVer ==
  /\ pc = "version"
  /\ NoExtras /\ Constructed /\ NoTarget /\ NoMetadata /\ NoDump /\ NoOptions
  /\ results = EmptyDict
  /\ PY3 = TRUE
  /\ version \in VersionStrings
  /\ compatible = None

VersionCompatible(compat) ==
  /\ pc = "version"
  /\ LET p == ParseVersion(version)
         c == IF p.exc # "" THEN [exc |-> p.exc, ok |-> FALSE]
              ELSE _version_compatible(p.ver, compat)
     IN /\ raised' = c.exc
        /\ compatible' = IF c.exc = "" THEN Some(c.ok) ELSE compatible
  /\ pc' = "compared"
  /\ UNCHANGED <<host, port, mysql_sock, defaults_file, user, qcache_stats,
                 qcache_hits, qcache_inserts, qcache_not_cached, results, metrics,
                 submitted, can_connect, field_src, put_src, entry_before,
                 divided, hostkey, rvars, server_version, metadata, dump, lineno,
                 txn_seen, buffer_id, options, innodb_enabled, xvars>>

NextVer == \E compat \in CompatVersions : VersionCompatible(compat)

SpecVer == InitVer /\ [][NextVer]_vars

\* a version of fewer than three segments with the missing ones read as 0
Padded(segs) ==
  [i \in 1..3 |-> IF i <= Len(segs) THEN LeadingDigits(segs[i]) ELSE 0]

\* C12: a version of fewer than three numeric segments is compared with the
\* missing segments read as 0, and the comparison raises nothing.
C12_ShortVersion ==
  (/\ pc = "compared"
   /\ Len(version) < 3
   /\ \A i \in DOMAIN version : IsDigits(version[i])) =>
     /\ raised = ""
     /\ \E compat \in CompatVersions : compatible = Some(TupleGE(Padded(version), compat))

\* ------------------------------------------------- the server metadata
MaxParts == 3

\* const.BUILDS: the build tags a version string can carry
BUILDS == {"log", "standard", "debug", "valgrind", "embedded"}

\* the '-' segments of the strings SELECT VERSION() returns, such as
\* 10.0.1-MariaDB-mariadb1precise-log
Parts == {"10.0.1", "MariaDB", "mariadb1precise", "log", "debug"}

VersionParts == UNION { [1..n -> Parts] : n \in 1..MaxParts }

\* a scan that keeps the first flavor it has set
ScanPart_keep(acc, data) ==
  LET flavor == IF acc.flavor # "" THEN acc.flavor
                ELSE IF data = "MariaDB" THEN "MariaDB" ELSE "MySQL"
  IN [acc EXCEPT !.flavor = flavor,
                 !.build = IF data \in BUILDS THEN data ELSE acc.build]

\* lines 100-106: one turn of the loop over the parts
ScanPart(acc, data) ==
  LET f1 == IF data = "MariaDB" THEN "MariaDB" ELSE acc.flavor
      f2 == IF data # "MariaDB" /\ f1 = "" THEN "MySQL" ELSE f1
  IN [acc EXCEPT !.flavor = f2,
                 !.build = IF data \in BUILDS THEN data ELSE acc.build]

RECURSIVE ScanParts(_, _, _)
ScanParts(acc, parts, i) ==
  IF i > Len(parts) THEN acc
  ELSE ScanParts(ScanPart(acc, parts[i]), parts, i + 1)

\* lines 97-110: MySQLMetadata(version, flavor, build) of the split string
_get_metadata(parts) ==
  LET acc == ScanParts([version |-> parts[1], flavor |-> "", build |-> ""], parts, 1)
  IN [acc EXCEPT !.build = IF acc.build = "" THEN "unspecified" ELSE acc.build]

InitMeta ==
  /\ pc = "connected"
  /\ NoExtras /\ Constructed /\ NoTarget /\ NoServer /\ NoVersionCheck /\ NoDump /\ NoOptions
  /\ results = EmptyDict
  /\ server_version \in VersionParts
  /\ metadata = None

GetMetadata ==
  /\ pc = "connected"
  /\ metadata' = Some(_get_metadata(server_version))
  /\ pc' = "resolved"
  /\ UNCHANGED <<host, port, mysql_sock, defaults_file, user, qcache_stats,
                 qcache_hits, qcache_inserts, qcache_not_cached, results, metrics,
                 submitted, can_connect, raised, field_src, put_src, entry_before,
                 divided, hostkey, rvars, compatible, server_version, dump, lineno,
                 txn_seen, buffer_id, options, innodb_enabled, xvars>>

NextMeta == GetMetadata

SpecMeta == InitMeta /\ [][NextMeta]_vars

HasPart(p) == \E i \in DOMAIN server_version : server_version[i] = p
BuildParts == {i \in DOMAIN server_version : server_version[i] \in BUILDS}
LastBuild == server_version[CHOOSE i \in BuildParts : \A j \in BuildParts : j <= i]

\* C13: the resolved flavor is MariaDB iff some part equals "MariaDB" and
\* MySQL otherwise; the build is the last part found in BUILDS, or
\* "unspecified"; a version followed by the parts MariaDB and log, in either
\* order, resolves to flavor MariaDB and build log.
C13_FlavorAndBuild ==
  pc = "resolved" =>
    LET m == Val(metadata)
    IN /\ m.flavor = IF HasPart("MariaDB") THEN "MariaDB" ELSE "MySQL"
       /\ m.build = IF BuildParts = {} THEN "unspecified" ELSE LastBuild
       /\ m.version = server_version[1]
       /\ (server_version \in {<<"10.0.1", "MariaDB", "log">>, <<"10.0.1", "log", "MariaDB">>}
             => m.flavor = "MariaDB" /\ m.build = "log")

\* 10.0.1-MariaDB-log has been resolved
C13_Witness ==
  /\ pc = "resolved"
  /\ server_version = <<"10.0.1", "MariaDB", "log">>
  /\ Val(metadata) = [version |-> "10.0.1", flavor |-> "MariaDB", build |-> "log"]

\* ------------------------------------------------- the engine-status parser
MaxLines == 3

\* the lines of a SHOW ENGINE INNODB STATUS text, each one the sequence of
\* its space-separated tokens (line.strip() and re.split(" +", line)).  The
\* last three match a pattern of the parser with too few tokens or without
\* a number where it expects one, or match no pattern at all.
Lines ==
  { <<"Trx", "id", "counter", "861B144C">>,
    <<"---TRANSACTION", "0,", "not", "started">>,
    <<"---TRANSACTION", "1,", "ACTIVE", "2", "sec">>,
    <<"---BUFFER", "POOL", "1">>,
    <<"Buffer", "pool", "size", "512">>,
    <<"Free", "buffers", "7">>,
    <<"Database", "pages", "500">>,
    <<"Database", "pages", "7">>,
    <<"Modified", "db", "pages", "3">>,
    <<"Pages", "read", "1,", "created", "2,", "written", "3">>,
    <<"Log", "sequence", "number", "100">>,
    <<"Last", "checkpoint", "at", "90">>,
    <<"Database", "pages">>,
    <<"Last", "checkpoint", "at", "n/a">>,
    <<"END", "OF", "INNODB", "MONITOR", "OUTPUT">> }

Dumps == UNION { [1..n -> Lines] : n \in 0..MaxLines }

\* item.strip(',') ... item.strip(']') on the tokens of the lines
Strip(tok) ==
  CASE tok = "0," -> "0"
    [] tok = "1," -> "1"
    [] tok = "2," -> "2"
    [] OTHER -> tok

\* long(tok): the tokens it converts and their values; it raises ValueError
\* for every other token
IsNumeric(tok) == tok \in {"0", "1", "2", "3", "7", "90", "100", "500", "512"}
Long(tok) ==
  CASE tok = "0" -> 0
    [] tok = "1" -> 1
    [] tok = "2" -> 2
    [] tok = "3" -> 3
    [] tok = "7" -> 7
    [] tok = "90" -> 90
    [] tok = "100" -> 100
    [] tok = "500" -> 500
    [] tok = "512" -> 512

Row(line) == [i \in DOMAIN line |-> Strip(line[i])]

\* line.find(pat) == 0 and line.startswith(pat) for a pattern of whole words
StartsWith(line, pat) ==
  /\ Len(line) >= Len(pat)
  /\ \A i \in DOMAIN pat : line[i] = pat[i]

\* line.find(word) > 0: the word occurs after the start of the line
FindsAfterStart(line, word) == \E i \in 2..Len(line) : line[i] = word

\* results[key] = long(row[k]) after the assignments made so far on the
\* line; k is the 0-based index of the source
PutLong(acc, key, row, k) ==
  IF acc.exc # "" THEN acc
  ELSE IF k >= Len(row) THEN [acc EXCEPT !.exc = "IndexError"]
  ELSE IF ~IsNumeric(row[k + 1]) THEN [acc EXCEPT !.exc = "ValueError"]
  ELSE [acc EXCEPT !.res = DictSet(acc.res, key, Long(row[k + 1]))]

\* results[key] += 1 on the defaultdict(int)
Increment(acc, key) ==
  [acc EXCEPT !.res = DictSet(acc.res, key, DictGet(acc.res, key, 0) + 1)]

\* lines 778-779: the pool header sets buffer_id before the pattern chain
BufferId(acc, line, row) ==
  IF ~StartsWith(line, <<"---BUFFER", "POOL">>) THEN acc
  ELSE IF 2 >= Len(row) THEN [acc EXCEPT !.exc = "IndexError"]
  ELSE IF ~IsNumeric(row[3]) THEN [acc EXCEPT !.exc = "ValueError"]
  ELSE [acc EXCEPT !.buffer_id = Long(row[3])]

\* a count that does not wait for the "Trx id counter" line
CountsTransaction_any(seen, line) == StartsWith(line, <<"---TRANSACTION">>)

\* line 822: txn_seen and line.find('---TRANSACTION') == 0
CountsTransaction(seen, line) == seen /\ StartsWith(line, <<"---TRANSACTION">>)

\* a test that lets the lines of every pool through
AggregatePool_any(id) == TRUE

\* lines 1006-1028: if buffer_id == -1
AggregatePool(id) == id = -1

\* lines 781-1044: the pattern chain for one line.  Of its branches only
\* those that a line of Lines can reach are kept, in the order of the source.
MatchLine(acc, line, row) ==
  IF StartsWith(line, <<"Trx", "id", "counter">>)
  THEN [acc EXCEPT !.txn_seen = TRUE]
  ELSE IF CountsTransaction(acc.txn_seen, line)
  THEN IF FindsAfterStart(line, "ACTIVE")
       THEN Increment(Increment(acc, "Innodb_current_transactions"),
                      "Innodb_active_transactions")
       ELSE Increment(acc, "Innodb_current_transactions")
  ELSE IF StartsWith(line, <<"Log", "sequence", "number">>)
  THEN PutLong(acc, "Innodb_lsn_current", row, 3)
  ELSE IF StartsWith(line, <<"Last", "checkpoint", "at">>)
  THEN PutLong(acc, "Innodb_lsn_last_checkpoint", row, 3)
  ELSE IF StartsWith(line, <<"Buffer", "pool", "size">>) /\ Len(line) > 3
  THEN IF AggregatePool(acc.buffer_id)
       THEN PutLong(acc, "Innodb_buffer_pool_pages_total", row, 3) ELSE acc
  ELSE IF StartsWith(line, <<"Free", "buffers">>)
  THEN IF AggregatePool(acc.buffer_id)
       THEN PutLong(acc, "Innodb_buffer_pool_pages_free", row, 2) ELSE acc
  ELSE IF StartsWith(line, <<"Database", "pages">>)
  THEN IF AggregatePool(acc.buffer_id)
       THEN PutLong(acc, "Innodb_buffer_pool_pages_data", row, 2) ELSE acc
  ELSE IF StartsWith(line, <<"Modified", "db", "pages">>)
  THEN IF AggregatePool(acc.buffer_id)
       THEN PutLong(acc, "Innodb_buffer_pool_pages_dirty", row, 3) ELSE acc
  ELSE IF StartsWith(line, <<"Pages", "read", "ahead">>)
  THEN acc
  ELSE IF StartsWith(line, <<"Pages", "read">>)
  THEN IF AggregatePool(acc.buffer_id)
       THEN PutLong(PutLong(PutLong(acc, "Innodb_pages_read", row, 2),
                            "Innodb_pages_created", row, 4),
                    "Innodb_pages_written", row, 6)
       ELSE acc
  ELSE acc

\* lines 770-1046: one turn of the loop over the lines
ParseLine(acc, line) ==
  LET row == Row(line)
      hdr == BufferId(acc, line, row)
  IN IF hdr.exc # "" THEN hdr ELSE MatchLine(hdr, line, row)

\* lines 1048-1052: reading a key of the defaultdict(int) that is not there
\* puts it in with the value 0, so the KeyError of line 1051 never comes
CheckpointAge(res) ==
  LET cur == DictGet(res, "Innodb_lsn_current", 0)
      last == DictGet(res, "Innodb_lsn_last_checkpoint", 0)
  IN DictSet(DictSet(DictSet(res, "Innodb_lsn_current", cur),
                     "Innodb_lsn_last_checkpoint", last),
             "Innodb_checkpoint_age", cur - last)

\* lines 1056-1057: results[metric] = str(value)
Stringified(res) == [k \in DOMAIN res |-> ToString(res[k])]

InitDump ==
  /\ pc = "scan"
  /\ NoExtras /\ Constructed /\ NoTarget /\ NoServer /\ NoVersionCheck /\ NoMetadata /\ NoOptions
  /\ results = EmptyDict
  /\ dump \in Dumps
  /\ lineno = 0
  /\ txn_seen = FALSE
  /\ buffer_id = -1

\* the loop body for the next line; an exception leaves the parser and
\* the results it had gathered are lost
ScanLine ==
  /\ pc = "scan"
  /\ lineno < Len(dump)
  /\ LET acc == ParseLine([res |-> results, txn_seen |-> txn_seen,
                           buffer_id |-> buffer_id, exc |-> ""], dump[lineno + 1])
     IN IF acc.exc # ""
        THEN /\ raised' = acc.exc
             /\ pc' = "raised"
             /\ results' = EmptyDict
             /\ UNCHANGED <<lineno, txn_seen, buffer_id>>
        ELSE /\ results' = acc.res
             /\ txn_seen' = acc.txn_seen
             /\ buffer_id' = acc.buffer_id
             /\ lineno' = lineno + 1
             /\ UNCHANGED <<pc, raised>>
  /\ UNCHANGED <<host, port, mysql_sock, defaults_file, user, qcache_stats,
                 qcache_hits, qcache_inserts, qcache_not_cached, metrics,
                 submitted, can_connect, field_src, put_src, entry_before,
                 divided, hostkey, rvars, compatible, server_version, metadata,
                 dump, options, innodb_enabled, xvars>>

\* after the last line: the checkpoint age and the conversion to strings
FinishScan ==
  /\ pc = "scan"
  /\ lineno = Len(dump)
  /\ results' = Stringified(CheckpointAge(results))
  /\ pc' = "parsed"
  /\ UNCHANGED <<host, port, mysql_sock, defaults_file, user, qcache_stats,
                 qcache_hits, qcache_inserts, qcache_not_cached, metrics,
                 submitted, can_connect, raised, field_src, put_src, entry_before,
                 divided, hostkey, rvars, compatible, server_version, metadata,
                 dump, lineno, txn_seen, buffer_id, options, innodb_enabled, xvars>>

NextDump == ScanLine \/ FinishScan

SpecDump == InitDump /\ [][NextDump]_vars

\* ---------------------------------------------------------------- C14
IsHeader(line) == StartsWith(line, <<"Trx", "id", "counter">>)
IsTransaction(line) == StartsWith(line, <<"---TRANSACTION">>)
HeaderBefore(i) == \E j \in 1..(i - 1) : IsHeader(dump[j])
\* the transaction lines among the lines read so far that follow a header
CountedLines == {i \in 1..lineno : IsTransaction(dump[i]) /\ HeaderBefore(i)}
Reading(res, key) ==
  IF key \in DOMAIN res THEN (IF pc = "parsed" THEN res[key] ELSE ToString(res[key]))
  ELSE "0"

\* C14: at every point of a parse the latch is set iff a "Trx id counter"
\* line has been read, so no line clears it, and Innodb_current_transactions
\* is the number of "---TRANSACTION" lines read after the first such line;
\* the transaction lines before it are not counted.
C14_TransactionCount ==
  pc \in {"scan", "parsed"} =>
    /\ txn_seen = (\E j \in 1..lineno : IsHeader(dump[j]))
    /\ Reading(results, "Innodb_current_transactions") = ToString(Cardinality(CountedLines))
    /\ ("Innodb_current_transactions" \in DOMAIN results) = (CountedLines # {})

\* two transaction lines after the header give "2"
C14_Witness ==
  /\ pc = "parsed"
  /\ Len(dump) = 3
  /\ IsHeader(dump[1]) /\ IsTransaction(dump[2]) /\ IsTransaction(dump[3])
  /\ results["Innodb_current_transactions"] = "2"

\* ---------------------------------------------------------------- C15
AggregateKeys ==
  {"Innodb_buffer_pool_pages_total", "Innodb_buffer_pool_pages_free",
   "Innodb_buffer_pool_pages_data", "Innodb_buffer_pool_pages_dirty",
   "Innodb_pages_read", "Innodb_pages_created", "Innodb_pages_written"}
Aggregates(res) == [k \in AggregateKeys \cap DOMAIN res |-> res[k]]

\* C15: a line read while the current pool id is 0 or more, that is after a
\* "---BUFFER POOL n" header, leaves the aggregate buffer-pool and page
\* counters as they are; a line changes them only while the pool id is -1.
C15_PoolScoped ==
  [][(pc = "scan" /\ pc' = "scan" /\ buffer_id >= 0)
       => Aggregates(results') = Aggregates(results)]_vars

\* "Database pages 7" has been read under the header of pool 1 and the
\* aggregate still is the 500 read before the header
C15_Witness ==
  /\ pc = "scan"
  /\ lineno = 3
  /\ dump = << <<"Database", "pages", "500">>, <<"---BUFFER", "POOL", "1">>,
               <<"Database", "pages", "7">> >>
  /\ buffer_id = 1
  /\ results["Innodb_buffer_pool_pages_data"] = 500

\* ---------------------------------------------------------------- C16
\* C16: no line makes the parse raise: a line that matches a pattern with too
\* few tokens, or without a number where one is expected, is skipped and
\* the scan goes on to the lines that follow.
C16_MalformedLineSkipped ==
  /\ raised = ""
  /\ pc # "raised"

\* ---------------------------------------------------------------- C17
WasRead(pat) == \E i \in 1..Len(dump) : StartsWith(dump[i], pat)
LsnRead == WasRead(<<"Log", "sequence", "number">>)
CheckpointRead == WasRead(<<"Last", "checkpoint", "at">>)

\* C17: the output of a parse has Innodb_checkpoint_age iff both the "Log
\* sequence number" and the "Last checkpoint at" line were read, and it has
\* the two sequence numbers only when their lines were read.
C17_CheckpointAge ==
  pc = "parsed" =>
    /\ ("Innodb_checkpoint_age" \in DOMAIN results) = (LsnRead /\ CheckpointRead)
    /\ ("Innodb_lsn_current" \in DOMAIN results) = LsnRead
    /\ ("Innodb_lsn_last_checkpoint" \in DOMAIN results) = CheckpointRead

\* ------------------------------------------------- the key cache metrics
\* the key cache rows of SHOW GLOBAL STATUS and SHOW VARIABLES: every one
\* present or absent
KeyCacheResults ==
  { ResultMap([Key_blocks_unused |-> u, key_cache_block_size |-> b, key_buffer_size |-> s,
               Key_blocks_used |-> d, Key_blocks_not_flushed |-> f]) :
      u \in Optional(Counters), b \in Optional(Counters), s \in Optional(Counters),
      d \in Optional(Counters), f \in Optional(Counters) }

\* a * b of two collected scalars: TypeError when one is None
Times(a, b) ==
  IF IsNone(a) \/ IsNone(b) THEN [exc |-> "TypeError", v |-> 0]
  ELSE [exc |-> "", v |-> Val(a) * Val(b)]

\* a test that lets every buffer size through
KeyBufferGuard_always(size) == TRUE

\* line 338: key_buffer_size != 0, which None passes
KeyBufferGuard(size) == size # Some(0)

\* line 339: 1 - ((key_blocks_unused * key_cache_block_size) / key_buffer_size)
\* kept exact as the fraction (size - unused * block) / size
KeyCacheUtilization(unused, block, size) ==
  LET p == Times(unused, block)
  IN IF p.exc # "" THEN [exc |-> p.exc, v |-> Zero]
     ELSE IF IsNone(size) THEN [exc |-> "TypeError", v |-> Zero]
     ELSE IF Val(size) = 0 THEN [exc |-> "ZeroDivisionError", v |-> Zero]
     ELSE [exc |-> "", v |-> [num |-> Val(size) - p.v, den |-> Val(size)]]

\* lines 330-346: the result map after the key cache block and the exception
\* that leaves it; the handler of line 345 takes TypeError only.  The value
\* under Key_buffer_size is the collected scalar, None included.
KeyCache(res) ==
  LET unused == collect_scalar("Key_blocks_unused", res)
      block == collect_scalar("key_cache_block_size", res)
      size == collect_scalar("key_buffer_size", res)
      r0 == DictSet(res, "Key_buffer_size", size)
      util == KeyCacheUtilization(unused, block, size)
      r1 == IF KeyBufferGuard(size) /\ util.exc = ""
            THEN DictSet(r0, "Key_cache_utilization", util.v) ELSE r0
      used == Times(collect_scalar("Key_blocks_used", res), block)
      r2 == IF used.exc = "" THEN DictSet(r1, "Key_buffer_bytes_used", used.v) ELSE r1
      unfl == Times(collect_scalar("Key_blocks_not_flushed", res), block)
      r3 == IF unfl.exc = "" THEN DictSet(r2, "Key_buffer_bytes_unflushed", unfl.v) ELSE r2
  IN IF KeyBufferGuard(size) /\ util.exc # ""
     THEN [res |-> r0, exc |-> IF util.exc = "TypeError" THEN "" ELSE util.exc]
     ELSE IF used.exc # "" THEN [res |-> r1, exc |-> ""]
     ELSE IF unfl.exc # "" THEN [res |-> r2, exc |-> ""]
     ELSE [res |-> r3, exc |-> ""]

InitKeyCache ==
  /\ pc = "key_cache"
  /\ Constructed /\ NoTarget /\ NoServer /\ NoParts
  /\ results \in KeyCacheResults

ComputeKeyCache ==
  /\ pc = "key_cache"
  /\ LET k == KeyCache(results)
     IN /\ results' = k.res
        /\ raised' = k.exc
  /\ pc' = "key_cache_done"
  /\ UNCHANGED <<host, port, mysql_sock, defaults_file, user, qcache_stats,
                 qcache_hits, qcache_inserts, qcache_not_cached, metrics,
                 submitted, can_connect, field_src, put_src, entry_before,
                 divided, hostkey, rvars, pvars, xvars>>

NextKeyCache == ComputeKeyCache

SpecKeyCache == InitKeyCache /\ [][NextKeyCache]_vars

\* C18: with key_buffer_size 0 the result map gets no Key_cache_utilization
\* and nothing is raised; with a non-zero key_buffer_size and both
\* Key_blocks_unused and key_cache_block_size present it gets
\* 1 - (Key_blocks_unused * key_cache_block_size / key_buffer_size).
C18_KeyCacheUtilization ==
  pc = "key_cache_done" =>
    /\ raised = ""
    /\ (Has("key_buffer_size") /\ results["key_buffer_size"] = 0)
         => ~Has("Key_cache_utilization")
    /\ (/\ Has("key_buffer_size") /\ results["key_buffer_size"] # 0
        /\ Has("Key_blocks_unused") /\ Has("key_cache_block_size"))
         => /\ Has("Key_cache_utilization")
            /\ results["Key_cache_utilization"] =
                 [num |-> results["key_buffer_size"]
                            - results["Key_blocks_unused"] * results["key_cache_block_size"],
                  den |-> results["key_buffer_size"]]

\* a pass with key_buffer_size 0 and the other inputs present went through
\* the block and has no utilization
C18_Witness ==
  /\ pc = "key_cache_done"
  /\ Has("key_buffer_size") /\ results["key_buffer_size"] = 0
  /\ Has("Key_blocks_unused") /\ Has("key_cache_block_size")
  /\ Has("Key_buffer_bytes_used")
  /\ ~Has("Key_cache_utilization")
  /\ raised = ""

\* ------------------------------------------------- the descriptor catalog
\* const.py: the descriptor groups, each with one of its descriptors
VARIABLES_VARS == {"Key_buffer_size"}
INNODB_VARS == {"Innodb_data_reads"}
BINLOG_VARS == {"Binlog_space_usage_bytes"}
OPTIONAL_STATUS_VARS == {"Binlog_cache_disk_use"}
OPTIONAL_STATUS_VARS_5_6_6 == {"Table_open_cache_hits"}
OPTIONAL_INNODB_VARS == {"Innodb_active_transactions"}
GALERA_VARS == {"wsrep_cluster_size"}
PERFORMANCE_VARS == {"query_run_time_avg"}
SCHEMA_VARS == {"information_schema_size"}
REPLICA_VARS == {"Seconds_Behind_Master"}

OptionNames ==
  {"disable_innodb_metrics", "extra_innodb_metrics", "extra_status_metrics",
   "galera_cluster", "extra_performance_metrics", "schema_size_metrics", "replication"}

\* instance['options']: every toggle set to true or left out
OptionSets == { [k \in ks |-> TRUE] : ks \in SUBSET OptionNames }

\* the servers of the passes: one below 5.6.0 and one above 5.6.6
CatalogVersions == {<<5, 5, 8>>, <<5, 6, 30>>}

\* the row of SHOW VARIABLES the performance group looks at
CatalogResults ==
  {EmptyDict, [performance_schema |-> "ON"], [performance_schema |-> "OFF"]}

\* is_affirmative(options.get(name, False))
is_affirmative(opts, name) == DictGet(opts, name, FALSE) = TRUE

\* lines 1061-1063
_get_variable_enabled(res, var) ==
  LET enabled == collect_string(var, res)
  IN ~IsNone(enabled) /\ Lower(Val(enabled)) = "on"

\* line 265: metrics = STATUS_VARS binds the dict of the module, which holds
\* what every earlier pass of the process has put into it
PassCatalog(cat) == cat

\* lines 271-387 and 435-442: the catalog handed to _submit_metrics by a pass
\* with these options, on a server of this version, with this result map
\* and this answer of the engine probe
CollectCatalog(cat, opts, engine, ver, res) ==
  LET on(name) == is_affirmative(opts, name)
      m1 == IF ~on("disable_innodb_metrics") /\ engine /\ on("extra_innodb_metrics")
            THEN PassCatalog(cat) \cup OPTIONAL_INNODB_VARS ELSE PassCatalog(cat)
      m2 == m1 \cup VARIABLES_VARS \cup INNODB_VARS \cup BINLOG_VARS
      m3 == IF on("extra_status_metrics")
            THEN m2 \cup OPTIONAL_STATUS_VARS \cup
                 (IF _version_compatible(ver, <<5, 6, 6>>).ok
                  THEN OPTIONAL_STATUS_VARS_5_6_6 ELSE {})
            ELSE m2
      m4 == IF on("galera_cluster") THEN m3 \cup GALERA_VARS ELSE m3
      m5 == IF /\ on("extra_performance_metrics")
               /\ _version_compatible(ver, <<5, 6, 0>>).ok
               /\ _get_variable_enabled(res, "performance_schema")
            THEN m4 \cup PERFORMANCE_VARS ELSE m4
      m6 == IF on("schema_size_metrics") THEN m5 \cup SCHEMA_VARS ELSE m5
      m7 == IF on("replication") THEN m6 \cup REPLICA_VARS ELSE m6
  IN PruneSynthetic(m7, res)

InitCatalog ==
  /\ pc = "loaded"
  /\ NoExtras /\ Constructed /\ NoTarget /\ NoServer /\ NoVersionCheck /\ NoMetadata /\ NoDump
  /\ NoOptions
  /\ results = EmptyDict

\* a pass of one of the instances of the process starts: its options and
\* what its server answers
BeginPass(opts, engine, ver, res) ==
  /\ pc = "loaded"
  /\ options' = opts
  /\ innodb_enabled' = engine
  /\ version' = ver
  /\ results' = res
  /\ pc' = "collecting"
  /\ UNCHANGED <<host, port, mysql_sock, defaults_file, user, qcache_stats,
                 qcache_hits, qcache_inserts, qcache_not_cached, metrics,
                 submitted, can_connect, raised, field_src, put_src, entry_before,
                 divided, hostkey, PY3, slave_running_status, compatible,
                 server_version, metadata, dump, lineno, txn_seen, buffer_id, xvars>>

\* _collect_metrics up to the call of _submit_metrics
CatalogPass ==
  /\ pc = "collecting"
  /\ metrics' = CollectCatalog(metrics, options, innodb_enabled, version, results)
  /\ pc' = "submitted"
  /\ UNCHANGED <<host, port, mysql_sock, defaults_file, user, qcache_stats,
                 qcache_hits, qcache_inserts, qcache_not_cached, results,
                 submitted, can_connect, raised, field_src, put_src, entry_before,
                 divided, hostkey, rvars, pvars, xvars>>

\* the pass returns: its options and its result map are gone, the dict of
\* the module stays
EndPass ==
  /\ pc = "submitted"
  /\ options' = EmptyDict
  /\ innodb_enabled' = FALSE
  /\ version' = <<0, 0, 0>>
  /\ results' = EmptyDict
  /\ pc' = "loaded"
  /\ UNCHANGED <<host, port, mysql_sock, defaults_file, user, qcache_stats,
                 qcache_hits, qcache_inserts, qcache_not_cached, metrics,
                 submitted, can_connect, raised, field_src, put_src, entry_before,
                 divided, hostkey, PY3, slave_running_status, compatible,
                 server_version, metadata, dump, lineno, txn_seen, buffer_id, xvars>>

NextCatalog ==
  \/ \E opts \in OptionSets, engine \in BOOLEAN, ver \in CatalogVersions,
        res \in CatalogResults : BeginPass(opts, engine, ver, res)
  \/ CatalogPass
  \/ EndPass

SpecCatalog == InitCatalog /\ [][NextCatalog]_vars

Enabled(name) == is_affirmative(options, name)
EngineDisabled == Enabled("disable_innodb_metrics") \/ ~innodb_enabled

\* C19: the catalog of a pass with the engine disabled, by the toggle or by
\* the probe, holds no descriptor of the engine group and none of the
\* extended engine group.
C19_NoEngineDescriptor ==
  (pc = "submitted" /\ EngineDisabled) =>
     metrics \cap (INNODB_VARS \cup OPTIONAL_INNODB_VARS) = {}

\* C20: the catalog of a pass holds the descriptors of an optional group
\* only if the toggle of the group is enabled in the options of that pass.
C20_GroupsFollowToggles ==
  pc = "submitted" =>
    /\ metrics \cap OPTIONAL_STATUS_VARS # {} => Enabled("extra_status_metrics")
    /\ metrics \cap OPTIONAL_STATUS_VARS_5_6_6 # {} => Enabled("extra_status_metrics")
    /\ metrics \cap OPTIONAL_INNODB_VARS # {} => Enabled("extra_innodb_metrics")
    /\ metrics \cap GALERA_VARS # {} => Enabled("galera_cluster")
    /\ metrics \cap PERFORMANCE_VARS # {} => Enabled("extra_performance_metrics")
    /\ metrics \cap SCHEMA_VARS # {} => Enabled("schema_size_metrics")
    /\ metrics \cap REPLICA_VARS # {} => Enabled("replication")

\* ------------------------------------------------- the legacy custom queries
MaxQueries == 3
MaxCap == 2
DEFAULT_MAX_CUSTOM_QUERIES == 20

\* what the server answers to a custom query: a row with a number in the
\* field, an error of cursor.execute, a row without the field, a row with a
\* text in the field
Outcomes == {"value", "exec_error", "no_column", "non_numeric"}

\* an entry of instance['queries']: its metric and what running it gives
Queries == [metric : {"m1", "m2"}, outcome : Outcomes]

QueryLists == UNION { [1..n -> Queries] : n \in 0..MaxQueries }

\* instance.get('max_custom_queries', self.DEFAULT_MAX_CUSTOM_QUERIES)
Caps == (0..MaxCap) \cup {DEFAULT_MAX_CUSTOM_QUERIES}

Min(a, b) == IF a <= b THEN a ELSE b

\* a loop over the whole list
Capped_all(qs, m) == qs

\* line 458: queries[:max_custom_queries] for a cap of 0 or more
Capped(qs, m) == SubSeq(qs, 1, Min(Len(qs), m))

\* lines 521-540: the exception running the query raises inside _collect_dict
QueryException(q) ==
  CASE q.outcome = "value" -> ""
    [] q.outcome = "exec_error" -> "OperationalError"
    [] q.outcome = "no_column" -> "ValueError"
    [] q.outcome = "non_numeric" -> "ValueError"

\* a handler that takes the ValueError only
Caught_value(exc) == exc = "ValueError"

\* lines 539 and 541: "except ValueError" inside, "except Exception" outside
Caught(exc) == exc = "ValueError" \/ exc # ""

\* lines 508-543: _collect_dict for one query: the gauge it emits, the warning
\* of line 542 and the exception that leaves it
_collect_dict(q) ==
  LET exc == QueryException(q)
  IN [emitted |-> IF exc = "" THEN <<[kind |-> "gauge", name |-> q.metric]>> ELSE <<>>,
      warnings |-> IF exc # "" /\ exc # "ValueError" /\ Caught(exc)
                   THEN <<"Error while running">> ELSE <<>>,
      exc |-> IF exc # "" /\ ~Caught(exc) THEN exc ELSE ""]

\* lines 458-462: the loop; an exception that leaves _collect_dict ends it
RECURSIVE RunQueries(_, _, _)
RunQueries(acc, qs, i) ==
  IF i > Len(qs) \/ acc.exc # "" THEN acc
  ELSE LET r == _collect_dict(qs[i])
       IN RunQueries([executed |-> Append(acc.executed, qs[i]),
                      emitted |-> acc.emitted \o r.emitted,
                      warnings |-> acc.warnings \o r.warnings,
                      exc |-> r.exc], qs, i + 1)

InitQueries ==
  /\ pc = "queries"
  /\ Constructed /\ NoTarget /\ NoServer /\ NoVersionCheck /\ NoMetadata /\ NoDump
  /\ NoOptions
  /\ results = EmptyDict
  /\ queries \in QueryLists
  /\ max_custom_queries \in Caps
  /\ executed = <<>> /\ warnings = <<>> /\ emitted = <<>>
  /\ passes = <<>> /\ instance_tags = <<>>

\* lines 455-465 of _collect_metrics
CollectCustomQueries ==
  /\ pc = "queries"
  /\ LET r == RunQueries([executed |-> <<>>, emitted |-> <<>>, warnings |-> <<>>,
                          exc |-> ""], Capped(queries, max_custom_queries), 1)
     IN /\ executed' = r.executed
        /\ emitted' = r.emitted
        /\ raised' = r.exc
        /\ warnings' = IF r.exc = "" /\ Len(queries) > max_custom_queries
                       THEN Append(r.warnings, "Maximum number of custom queries reached")
                       ELSE r.warnings
        /\ pc' = IF r.exc = "" THEN "queries_done" ELSE "raised"
  /\ UNCHANGED <<host, port, mysql_sock, defaults_file, user, qcache_stats,
                 qcache_hits, qcache_inserts, qcache_not_cached, results, metrics,
                 submitted, can_connect, field_src, put_src, entry_before,
                 divided, hostkey, rvars, pvars, queries, max_custom_queries,
                 passes, instance_tags>>

NextQueries == CollectCustomQueries

SpecQueries == InitQueries /\ [][NextQueries]_vars

Warned(msg) == \E i \in DOMAIN warnings : warnings[i] = msg

\* C21: of n custom queries with the cap m the first min(n, m) are run, in
\* the order of the list, the 'maximum reached' warning is logged iff
\* n > m, and the pass goes on in both cases.
C21_FirstQueriesUpToCap ==
  pc # "queries" =>
    /\ executed = SubSeq(queries, 1, Min(Len(queries), max_custom_queries))
    /\ Warned("Maximum number of custom queries reached")
         = (Len(queries) > max_custom_queries)
    /\ pc = "queries_done" /\ raised = ""

\* three queries under the cap 2: two are run and the warning is logged
C21_Witness ==
  /\ pc = "queries_done"
  /\ Len(queries) = 3 /\ max_custom_queries = 2
  /\ executed = SubSeq(queries, 1, 2)
  /\ Warned("Maximum number of custom queries reached")

\* C22: a custom query that fails (error of the query, field not in the
\* row, value that is no number) emits nothing and stops nothing: every
\* query within the cap is run and the pass does not raise.
C22_FailureConfined ==
  pc # "queries" =>
    /\ raised = ""
    /\ Len(executed) = Min(Len(queries), max_custom_queries)
    /\ \A i \in DOMAIN executed : executed[i] = queries[i]
    /\ Len(emitted) = Cardinality({i \in DOMAIN executed : executed[i].outcome = "value"})

\* a query that raised in execute is followed by one that emits its gauge
C22_Witness ==
  /\ pc = "queries_done"
  /\ Len(executed) >= 2
  /\ executed[1].outcome = "exec_error"
  /\ executed[2].outcome = "value"
  /\ emitted = <<[kind |-> "gauge", name |-> executed[2].metric]>>
  /\ Warned("Error while running")

\* ---------------------------------------------------------------- C23
\* C23: a pass whose connection fails emits mysql.can_connect CRITICAL and
\* no OK, has collected and submitted nothing, and raises the connection
\* error; a pass whose connection succeeds emits OK and goes on.
C23_UnreachableServer ==
  [][pc = "connect" =>
       \/ /\ pc' = "collect"
          /\ can_connect' = <<"OK">>
       \/ /\ pc' = "raised"
          /\ raised' = "OperationalError"
          /\ can_connect' = <<"CRITICAL">>
          /\ results' = EmptyDict /\ submitted' = {}]_vars

\* the connection failed: CRITICAL alone, nothing submitted, the error raised
C23_Witness ==
  /\ pc = "raised"
  /\ raised = "OperationalError"
  /\ can_connect = <<"CRITICAL">>
  /\ results = EmptyDict /\ submitted = {}

\* ---------------------------------------------------------------- C28
\* C28: in one pass mysql.can_connect CRITICAL is emitted only when the
\* connection failed: no pass emits OK and then CRITICAL.
C28_CriticalOnlyOnConnectFailure ==
  ~(\E i, j \in DOMAIN can_connect :
       i < j /\ can_connect[i] = "OK" /\ can_connect[j] = "CRITICAL")

\* ---------------------------------------------------------------- C24
Emissions(kind) == {i \in DOMAIN emitted : emitted[i].kind = kind}

\* C24: every pass that went through the classifier has emitted its result
\* once as the gauge mysql.replication.slave_running and once as the
\* service check of that name, and the gauge is 1 iff the status is OK.
C24_GaugeAndServiceCheck ==
  pc = "classified" =>
    /\ Cardinality(Emissions("gauge")) = 1
    /\ Cardinality(Emissions("service_check")) = 1
    /\ \A i \in Emissions("service_check") : emitted[i].status = slave_running_status
    /\ \A i \in Emissions("gauge") :
         emitted[i].value = (IF slave_running_status = "OK" THEN 1 ELSE 0)

\* C24 on the passes whose classifier returns
C24_EmittedWhenReturned ==
  (pc = "classified" /\ raised = "") => C24_GaugeAndServiceCheck

\* ---------------------------------------------------------------- C27
\* C27: for every stored triple and every sample, counters that went down
\* included, the instantaneous utilization is computed without a division
\* by zero: a non-zero hit delta comes with a non-zero sum of the deltas.
C27_NoDivisionByZero == raised # "ZeroDivisionError"

\* ------------------------------------------------- the buffer pool metrics
\* lines 274-280
innodb_keys == <<"Innodb_page_size", "Innodb_buffer_pool_pages_data",
                 "Innodb_buffer_pool_pages_dirty", "Innodb_buffer_pool_pages_total",
                 "Innodb_buffer_pool_pages_free">>

\* the result map after the parser: every page counter and the page size
\* present or absent; the server reports none of the derived byte metrics
BufferPoolResults ==
  { ResultMap([Innodb_page_size |-> ps, Innodb_buffer_pool_pages_data |-> da,
               Innodb_buffer_pool_pages_dirty |-> di, Innodb_buffer_pool_pages_total |-> to,
               Innodb_buffer_pool_pages_free |-> fr]) :
      ps \in Optional(Counters), da \in Optional(Counters), di \in Optional(Counters),
      to \in Optional(Counters), fr \in Optional(Counters) }

\* lines 282-283: results[inno_k] = collect_scalar(inno_k, results); the value
\* under each of the five keys is the collected scalar, None included
CollectInnodbKeys(res) ==
  [k \in DOMAIN res \cup {innodb_keys[i] : i \in DOMAIN innodb_keys} |->
     IF \E i \in DOMAIN innodb_keys : innodb_keys[i] = k
     THEN collect_scalar(k, res) ELSE res[k]]

\* a - b of two collected scalars: TypeError when one is None
Minus(a, b) ==
  IF IsNone(a) \/ IsNone(b) THEN [exc |-> "TypeError", v |-> 0]
  ELSE [exc |-> "", v |-> Val(a) - Val(b)]

\* used / total of line 313: ZeroDivisionError when total is 0
Ratio(used, total) ==
  IF IsNone(total) THEN [exc |-> "TypeError", v |-> Zero]
  ELSE IF Val(total) = 0 THEN [exc |-> "ZeroDivisionError", v |-> Zero]
  ELSE [exc |-> "", v |-> [num |-> used, den |-> Val(total)]]

\* one assignment of the try block, after those made so far
PutDerived(acc, key, r) ==
  IF acc.exc # "" THEN acc
  ELSE IF r.exc # "" THEN [acc EXCEPT !.exc = r.exc]
  ELSE [acc EXCEPT !.res = DictSet(acc.res, key, r.v)]

\* lines 285-319: the try block and the exception that leaves it; the
\* handler of line 318 takes KeyError and TypeError
BufferPool(res) ==
  LET r0 == CollectInnodbKeys(res)
      ps == r0["Innodb_page_size"]
      total == r0["Innodb_buffer_pool_pages_total"]
      free == r0["Innodb_buffer_pool_pages_free"]
      used == Minus(total, free)
      a0 == [res |-> r0, exc |-> used.exc]
      a1 == PutDerived(a0, "Innodb_buffer_pool_bytes_data",
                       Times(r0["Innodb_buffer_pool_pages_data"], ps))
      a2 == PutDerived(a1, "Innodb_buffer_pool_bytes_dirty",
                       Times(r0["Innodb_buffer_pool_pages_dirty"], ps))
      a3 == PutDerived(a2, "Innodb_buffer_pool_bytes_free", Times(free, ps))
      a4 == PutDerived(a3, "Innodb_buffer_pool_bytes_total", Times(total, ps))
      a5 == PutDerived(a4, "Innodb_buffer_pool_pages_utilization", Ratio(used.v, total))
      a6 == PutDerived(a5, "Innodb_buffer_pool_bytes_used", Times(Some(used.v), ps))
  IN [res |-> a6.res,
      exc |-> IF a6.exc \in {"KeyError", "TypeError"} THEN "" ELSE a6.exc]

InitBufferPool ==
  /\ pc = "buffer_pool"
  /\ Constructed /\ NoTarget /\ NoServer /\ NoParts
  /\ results \in BufferPoolResults

ComputeBufferPool ==
  /\ pc = "buffer_pool"
  /\ LET b == BufferPool(results)
     IN /\ results' = b.res
        /\ raised' = b.exc
        /\ pc' = IF b.exc = "" THEN "buffer_pool_done" ELSE "raised"
  /\ UNCHANGED <<host, port, mysql_sock, defaults_file, user, qcache_stats,
                 qcache_hits, qcache_inserts, qcache_not_cached, metrics,
                 submitted, can_connect, field_src, put_src, entry_before,
                 divided, hostkey, rvars, pvars, xvars>>

NextBufferPool == ComputeBufferPool

SpecBufferPool == InitBufferPool /\ [][NextBufferPool]_vars

\* C26: for every combination of present, absent and zero values of the
\* page size and the page counters the buffer pool step raises nothing
\* and the pass goes on to its later steps.
C26_BufferPoolStepContained ==
  pc # "buffer_pool" => (raised = "" /\ pc = "buffer_pool_done")

\* ------------------------------------------------- the tags of the instance
MaxChannelTags == 2

ConfiguredTags == {"env:prod", "team:db"}

\* instance['tags']: left out, or a list of up to two tags
TagLists == {None} \cup {Some(l) : l \in UNION { [1..n -> ConfiguredTags] : n \in 0..2 }}

\* options['replication_channel']: left out or a name
ReplicationChannels == {"", "a", "b"}

\* "channel:{0}".format(replication_channel)
ChannelTag(channel) == "channel:" \o channel
ChannelTags == {ChannelTag(c) : c \in ReplicationChannels \ {""}}

\* line 171: instance.get('tags', []): the list of the instance itself, or
\* a new empty list when the instance has none
GetTags(itags) == IF IsNone(itags) THEN <<>> ELSE Val(itags)

\* lines 377-384: the tags after the replication block; tags.append changes
\* the list it is called on
ReplicationTags(tags, opts) ==
  IF is_affirmative(opts, "replication") /\ DictGet(opts, "replication_channel", "") # ""
  THEN Append(tags, ChannelTag(opts["replication_channel"]))
  ELSE tags

TagOptions ==
  { ResultMap([replication |-> r, replication_channel |-> c]) :
      r \in Optional({TRUE}), c \in Optional(ReplicationChannels \ {""}) }

InitTags ==
  /\ pc = "idle"
  /\ Constructed /\ NoTarget /\ NoServer /\ NoVersionCheck /\ NoMetadata /\ NoDump
  /\ NoOptions /\ NoQueries
  /\ results = EmptyDict
  /\ emitted = <<>> /\ passes = <<>>
  /\ instance_tags \in TagLists

\* one pass: _get_config hands out the tag list, the replication block
\* appends to it and _submit_metrics copies it for the metric it emits
TagPass(opts) ==
  /\ pc \in {"idle", "tagged"}
  /\ Len(GetTags(instance_tags)) < 2 + MaxChannelTags
  /\ LET tags == ReplicationTags(GetTags(instance_tags), opts)
     IN /\ instance_tags' = IF IsNone(instance_tags) THEN instance_tags ELSE Some(tags)
        /\ emitted' = <<[kind |-> "gauge", name |-> "Threads_connected", tags |-> tags]>>
  /\ options' = opts
  /\ pc' = "tagged"
  /\ UNCHANGED <<host, port, mysql_sock, defaults_file, user, qcache_stats,
                 qcache_hits, qcache_inserts, qcache_not_cached, results, metrics,
                 submitted, can_connect, raised, field_src, put_src, entry_before,
                 divided, hostkey, rvars, compatible, server_version, metadata,
                 dump, lineno, txn_seen, buffer_id, innodb_enabled, queries,
                 max_custom_queries, executed, warnings, passes>>

NextTags == \E opts \in TagOptions : TagPass(opts)

SpecTags == InitTags /\ [][NextTags]_vars

Occurrences(seq, x) == Cardinality({i \in DOMAIN seq : seq[i] = x})

\* C29: the passes leave the configured tag list as it was, without any
\* channel tag, and a metric carries each channel tag at most once.
C29_TagListUnchanged ==
  /\ \A t \in ChannelTags : Occurrences(GetTags(instance_tags), t) = 0
  /\ \A i \in DOMAIN emitted : \A t \in ChannelTags :
       Occurrences(emitted[i].tags, t) <= 1

\* ------------------------------------------------- overlapping passes
\* Two passes of one check object against one server identity, run without
\* any lock: each statement of _set_qcache_stats, of the end of
\* _compute_synthetic_results and _put_qcache_stats is a step of its own.
Procs == {1, 2}

\* the counters a pass samples: the three counters of pass p all read p, the
\* sample completed before both passes reads 0
SampleOf(p) == <<p, p, p>>
StoredBefore == <<Some(0), Some(0), Some(0)>>

\* what the steps of the overlapping passes leave alone
overlap_frame ==
  <<pc, host, port, mysql_sock, defaults_file, user, results, metrics, submitted,
    can_connect, raised, field_src, put_src, entry_before, divided, hostkey, rvars,
    pvars, queries, max_custom_queries, executed, warnings, emitted, instance_tags>>

InitOverlap ==
  /\ pc = "overlap"
  /\ Constructed /\ NoTarget /\ NoServer /\ NoVersionCheck /\ NoMetadata /\ NoDump
  /\ NoOptions /\ NoQueries
  /\ results = EmptyDict
  /\ emitted = <<>> /\ instance_tags = <<>>
  /\ passes = [p \in Procs |-> [at |-> "start", n |-> 1, st |-> <<None, None, None>>,
                                prior |-> <<>>]]

\* the sample of an earlier pass is stored, or none is
StoreEarlier ==
  /\ \A p \in Procs : passes[p].at = "start"
  /\ qcache_stats = EmptyDict
  /\ qcache_stats' = DictSet(qcache_stats, host_key, StoredBefore)
  /\ UNCHANGED <<passes, qcache_hits, qcache_inserts, qcache_not_cached, overlap_frame>>

\* line 202: qcache_st = self.qcache_stats.get(host_key, (None, None, None))
LoadEntry(p) ==
  /\ passes[p].at = "start"
  /\ passes' = [passes EXCEPT ![p].at = "set", ![p].n = 1,
                              ![p].st = Entry(qcache_stats, host_key)]
  /\ UNCHANGED <<qcache_stats, qcache_hits, qcache_inserts, qcache_not_cached,
                 overlap_frame>>

\* the assignment of field n to v, one of three
AssignField(n, v) ==
  /\ qcache_hits' = IF n = 1 THEN v ELSE qcache_hits
  /\ qcache_inserts' = IF n = 2 THEN v ELSE qcache_inserts
  /\ qcache_not_cached' = IF n = 3 THEN v ELSE qcache_not_cached

\* lines 204-206: self._qcache_hits = qcache_st[0] and the two after it
SetField(p) ==
  /\ passes[p].at = "set"
  /\ AssignField(passes[p].n, passes[p].st[passes[p].n])
  /\ passes' = IF passes[p].n < 3 THEN [passes EXCEPT ![p].n = @ + 1]
               ELSE [passes EXCEPT ![p].at = "compute"]
  /\ UNCHANGED <<qcache_stats, overlap_frame>>

\* lines 1150-1160: the prior counters the delta of the pass is taken from,
\* when all three are there
ComputeDelta(p) ==
  /\ passes[p].at = "compute"
  /\ passes' = [passes EXCEPT ![p].at = "update", ![p].n = 1,
                 ![p].prior = IF AllPrior(qcache_hits, qcache_inserts, qcache_not_cached)
                              THEN <<Val(qcache_hits), Val(qcache_inserts),
                                     Val(qcache_not_cached)>>
                              ELSE <<>>]
  /\ UNCHANGED <<qcache_stats, qcache_hits, qcache_inserts, qcache_not_cached,
                 overlap_frame>>

\* lines 1163-1165: self._qcache_hits = int(results['Qcache_hits']) and the
\* two after it
UpdateField(p) ==
  /\ passes[p].at = "update"
  /\ AssignField(passes[p].n, Some(SampleOf(p)[passes[p].n]))
  /\ passes' = IF passes[p].n < 3 THEN [passes EXCEPT ![p].n = @ + 1]
               ELSE [passes EXCEPT ![p].at = "put"]
  /\ UNCHANGED <<qcache_stats, overlap_frame>>

\* line 210: the store of the three fields
PutEntry(p) ==
  /\ passes[p].at = "put"
  /\ qcache_stats' = DictSet(qcache_stats, host_key,
                             <<qcache_hits, qcache_inserts, qcache_not_cached>>)
  /\ passes' = [passes EXCEPT ![p].at = "done"]
  /\ UNCHANGED <<qcache_hits, qcache_inserts, qcache_not_cached, overlap_frame>>

NextOverlap ==
  \/ StoreEarlier
  \/ \E p \in Procs :
       LoadEntry(p) \/ SetField(p) \/ ComputeDelta(p) \/ UpdateField(p) \/ PutEntry(p)

SpecOverlap == InitOverlap /\ [][NextOverlap]_vars

\* the three counters come from one sample
OneSample(t) == t[1] = t[2] /\ t[2] = t[3]

\* C25: whatever the interleaving of two passes against one identity, the
\* prior triple a pass takes its delta from comes from one completed
\* sample, and the stored entry is the triple of one pass.
C25_NoMixedDelta ==
  /\ \A p \in Procs : passes[p].prior # <<>> => OneSample(passes[p].prior)
  /\ host_key \in DOMAIN qcache_stats => OneSample(qcache_stats[host_key])

====
